---------------------------- MODULE Spec2Model ----------------------------
(***************************************************************************)
(* zkWasm trace arithmetization and continuation engine.                   *)
(*                                                                         *)
(*   SpecMem     Tables::create_memory_table (crates/specs/src/lib.rs) and *)
(*               the conversion of its result into the memory writing      *)
(*               table                                                     *)
(*   SpecEtable  EventTableChip::assign (circuits/etable/assign.rs)        *)
(*   SpecSlices  Slices::from_table (continuation/slice.rs)                *)
(*                                                                         *)
(* Field elements and u32/u64 values are naturals.  A wrapped unsigned     *)
(* value 2^32 + n (n < 0) is written as the negative number n.             *)
(***************************************************************************)
EXTENDS Integers, Sequences, FiniteSets, TLC

VARIABLES
    pc,             \* position of the modelled run
    etable,         \* execution_tables.etable: the sequence of EventTableEntry
    imtable,        \* compilation_tables.imtable: (ltype, offset) -> value
    status,         \* "none" | "ok" | "panic..." : outcome of the last operation
    mtable,         \* MTable returned by create_memory_table
    mwtable,        \* MemoryWritingTable (rows with end_eid)
    initialization_state,  \* execution_tables.initialization_state
    max_available_rows,    \* EventTableChip.max_available_rows
    witness,        \* whether the layouter pass carries cell values
    cells,          \* assigned cells: <<column, row>> -> Some(value) | None
    capability,     \* event-table capacity given to Slices::from_table
    slices,         \* the slices built by Slices::from_table
    compilation,    \* CompilationTable given to the image encoder
    max_image_table_rows,  \* circuits::config::max_image_table_rows()
    image,          \* ImageTableLayouter of field elements
    params,         \* commitment parameters: the Lagrange bases
    digest          \* the checksums computed so far

memVars == <<imtable, mtable, mwtable>>
etVars == <<initialization_state, max_available_rows, witness, cells>>
slVars == <<capability, slices>>
imgVars == <<compilation, max_image_table_rows, image, params, digest>>

vars == <<pc, etable, status, memVars, etVars, slVars, imgVars>>

\* no image is encoded
NoImage ==
    /\ compilation = <<>>
    /\ max_image_table_rows = 0
    /\ image = <<>>
    /\ params = <<>>
    /\ digest = <<>>

---------------------------------------------------------------------------
(* Bounds of the model *)

\* steps of a trace given to create_memory_table
MaxSteps == 2
\* memory accesses in a trace given to create_memory_table
MaxEntries == 2

---------------------------------------------------------------------------
(* Generic helpers *)

Range(s) == {s[i] : i \in 1..Len(s)}

\* every sequence that enumerates the finite set S once
SeqsOfSet(S) ==
    {s \in [1..Cardinality(S) -> S] : \A i, j \in 1..Cardinality(S) : s[i] = s[j] => i = j}

RECURSIVE Concat(_)
\* Vec<Vec<_>>::concat
Concat(ss) == IF ss = <<>> THEN <<>> ELSE Head(ss) \o Concat(Tail(ss))

---------------------------------------------------------------------------
(* specs::mtable : LocationType, AccessType, VarType, MemoryTableEntry *)

LocationTypes == {"Stack", "Heap", "Global"}

\* derived Ord of LocationType (declaration order)
LTypeOrd(ltype) ==
    CASE ltype = "Stack" -> 1
      [] ltype = "Heap" -> 2
      [] ltype = "Global" -> 3

VarTypes == {"I32", "I64"}

\* the locations of the model: <<ltype, offset>>
Locations == {<<"Stack", 0>>, <<"Heap", 0>>, <<"Heap", 1>>, <<"Global", 0>>}

InitLocations == {l \in Locations : l[1] \in {"Heap", "Global"}}

\* the values the Read/Write accesses of the model carry
AccessValues == {7}
\* the values the InitMemoryEntry rows of the model carry
ImageValues == {5}

\* the memory accesses a step_info of the model can carry: reads and writes of
\* every location; the value type varies on heap offset 0 and the mutability
\* flag on the global
Accesses ==
    {a \in [ltype : LocationTypes, offset : {0, 1}, atype : {"Read", "Write"},
            vtype : VarTypes, is_mutable : BOOLEAN, value : AccessValues] :
        /\ <<a.ltype, a.offset>> \in Locations
        /\ a.ltype # "Global" => a.is_mutable
        /\ <<a.ltype, a.offset>> # <<"Heap", 0>> => a.vtype = "I64"}

Loc(e) == <<e.ltype, e.offset>>

\* sequences of at most n accesses
StepInfos(n) == UNION {[1..k -> Accesses] : k \in 0..n}

\* EventTableEntry, as far as the memory table reads it
EventTableEntry(eid, step_info) == [eid |-> eid, step_info |-> step_info]

\* the per-step expansion handed to create_memory_table: one MemoryTableEntry
\* per access of the step, with the sub id counted from `emid`
memory_event_of_step(entry, emid) ==
    [i \in 1..Len(entry.step_info) |->
        [eid |-> entry.eid,
         emid |-> emid + i - 1,
         offset |-> entry.step_info[i].offset,
         ltype |-> entry.step_info[i].ltype,
         atype |-> entry.step_info[i].atype,
         vtype |-> entry.step_info[i].vtype,
         is_mutable |-> entry.step_info[i].is_mutable,
         value |-> entry.step_info[i].value]]

\* Option<T>
None == <<>>
Some(v) == <<v>>

\* InitMemoryTable::try_find : the value of the entry of (ltype, offset), if any
try_find(imt, ltype, offset) ==
    IF <<ltype, offset>> \in DOMAIN imt THEN Some(imt[<<ltype, offset>>]) ELSE None

---------------------------------------------------------------------------
(* Tables::create_memory_table *)

\* lib.rs:143-150  the per-step map (each step with a fresh sub id counter
\* starting at 1); collect keeps the steps' order whatever order they finish in
expand_steps(et) == Concat([i \in 1..Len(et) |-> memory_event_of_step(et[i], 1)])

\* lib.rs:155  the locations that get an Init entry
is_heap_or_global(entry) == entry.ltype = "Heap" \/ entry.ltype = "Global"

\* lib.rs:152-167  Some(value) for a Heap or Global entry (the unwrapped
\* lookup), None for the stack
init_value(imt, entry) ==
    IF is_heap_or_global(entry)
    THEN try_find(imt, entry.ltype, entry.offset)
    ELSE None

\* lib.rs:156-160  the unwrap of a failed lookup ends the call
lookup_panics(imt, entries) ==
    \E i \in 1..Len(entries) :
        is_heap_or_global(entries[i])
        /\ try_find(imt, entries[i].ltype, entries[i].offset) = None

\* faulty variant: the Init entry keeps the ids of the access it is made for
InitEntry_KeepIds(entry, value) ==
    [eid |-> entry.eid, emid |-> entry.emid, offset |-> entry.offset,
     ltype |-> entry.ltype, atype |-> "Init", vtype |-> entry.vtype,
     is_mutable |-> entry.is_mutable, value |-> value]

\* lib.rs:177-186  the synthesized Init entry
InitEntry(entry, value) ==
    [eid |-> 0, emid |-> 0, offset |-> entry.offset, ltype |-> entry.ltype,
     atype |-> "Init", vtype |-> entry.vtype, is_mutable |-> entry.is_mutable,
     value |-> value]

\* lib.rs:169-188  the HashSet of Init entries
init_set(imt, entries) ==
    {InitEntry(entries[i], init_value(imt, entries[i])[1]) :
        i \in {j \in 1..Len(entries) : init_value(imt, entries[j]) # None}}

\* lib.rs:192  the sort key
SortKey(item) == <<LTypeOrd(item.ltype), item.offset, item.eid, item.emid>>

\* Ord of the key tuples
KeyLess(a, b) ==
    \E k \in 1..4 : a[k] < b[k] /\ \A j \in 1..(k - 1) : a[j] = b[j]

RECURSIVE InsertByKey(_, _)
InsertByKey(x, s) ==
    IF s = <<>> THEN <<x>>
    ELSE IF KeyLess(SortKey(x), SortKey(Head(s)))
         THEN <<x>> \o s
         ELSE <<Head(s)>> \o InsertByKey(x, Tail(s))

\* faulty variant: the merged entries are left unsorted
sort_by_key_Unsorted(s) == s

RECURSIVE sort_by_key(_)
\* slice::sort_by_key : a stable sort
sort_by_key(s) ==
    IF s = <<>> THEN <<>>
    ELSE InsertByKey(s[Len(s)], sort_by_key(SubSeq(s, 1, Len(s) - 1)))

\* MTable::new : wraps the sorted entries
MTable_new(entries) == entries

\* end_eid of the last row of a location
Sentinel == 1048575

\* MemoryWritingTable::from(MTable): every row with the eid of the next row of
\* the same (ltype, offset), or the sentinel for the last row of the location
MemoryWritingTable_from(mt) ==
    [i \in 1..Len(mt) |->
        LET later == {j \in (i + 1)..Len(mt) : Loc(mt[j]) = Loc(mt[i])}
        IN  [entry |-> mt[i],
             end_eid |-> IF later = {} THEN Sentinel
                         ELSE mt[CHOOSE j \in later : \A k \in later : j <= k].eid]]

---------------------------------------------------------------------------
(* SpecMem: a trace is recorded step by step, then the memory table is built *)

InitMemoryTables == UNION {[S -> ImageValues] : S \in SUBSET InitLocations}

InitMem ==
    /\ pc = "trace"
    /\ etable = <<>>
    /\ imtable \in InitMemoryTables
    /\ status = "none"
    /\ mtable = <<>>
    /\ mwtable = <<>>
    /\ initialization_state = <<>>
    /\ max_available_rows = 0
    /\ witness = FALSE
    /\ cells = <<>>
    /\ capability = 0
    /\ slices = <<>>
    /\ NoImage

\* the interpreter appends one step; execution ids count from 1
TraceStep ==
    /\ pc = "trace"
    /\ Len(etable) < MaxSteps
    /\ \E step_info \in StepInfos(MaxEntries - Len(expand_steps(etable))) :
          etable' = Append(etable, EventTableEntry(Len(etable) + 1, step_info))
    /\ UNCHANGED <<pc, status, memVars, etVars, slVars, imgVars>>

\* test_circuit/mod.rs:210-211  create_memory_table(memory_event_of_step).into()
\* The HashSet yields its elements in any order (lib.rs:190).
CreateMemoryTable ==
    /\ pc \in {"trace", "built"}
    /\ pc' = "built"
    /\ LET memory_entries == expand_steps(etable)
       IN  IF lookup_panics(imtable, memory_entries)
           THEN /\ status' = "panic"
                /\ mtable' = <<>>
                /\ mwtable' = <<>>
           ELSE \E set_order \in SeqsOfSet(init_set(imtable, memory_entries)) :
                /\ status' = "ok"
                /\ mtable' = MTable_new(sort_by_key(memory_entries \o set_order))
                /\ mwtable' = MemoryWritingTable_from(mtable')
    /\ UNCHANGED <<etable, imtable, etVars, slVars, imgVars>>

NextMem == TraceStep \/ CreateMemoryTable

SpecMem == InitMem /\ [][NextMem]_vars

---------------------------------------------------------------------------
(* Properties of the memory table *)

Built == pc = "built"
BuiltOk == pc = "built" /\ status = "ok"

\* the key the table is to be sorted by
RowKey(row) == <<LTypeOrd(row.ltype), row.offset, row.eid, row.emid>>
RowKeyLeq(a, b) ==
    RowKey(a) = RowKey(b)
    \/ \E k \in 1..4 : RowKey(a)[k] < RowKey(b)[k] /\ \A j \in 1..(k - 1) : RowKey(a)[j] = RowKey(b)[j]
SortedByRowKey(t) == \A i \in 1..(Len(t) - 1) : RowKeyLeq(t[i], t[i + 1])

RowsAt(t, loc) == {i \in 1..Len(t) : Loc(t[i]) = loc}
InitRowsAt(t, loc) == {i \in RowsAt(t, loc) : t[i].atype = "Init"}
AccessRowsAt(t, loc) == {i \in RowsAt(t, loc) : t[i].atype # "Init"}

\* C1: in the memory writing table, the rows of every (ltype, offset) pair
\* stand in execution-id order and form a chain: the end_eid of a row is the
\* eid of the next row of the pair (no row of the pair lies strictly between),
\* and the last row of the pair carries the sentinel.
C1_ChainTotality ==
    BuiltOk =>
        /\ Len(mwtable) = Len(mtable)
        /\ \A i \in 1..Len(mwtable) :
            LET row == mwtable[i]
                same == RowsAt(mtable, Loc(row.entry)) \ {i}
                later == {j \in same : j > i}
            IN  /\ row.entry = mtable[i]
                /\ \A j \in later : row.entry.eid <= mtable[j].eid
                /\ \A j \in same \ later : mtable[j].eid <= row.entry.eid
                /\ IF later = {}
                   THEN row.end_eid = Sentinel
                   ELSE /\ row.end_eid \in {mtable[j].eid : j \in later}
                        /\ \A j \in later : row.end_eid <= mtable[j].eid

\* a chain of three rows of one location: Init, then two accesses of two steps
C1_Witness ==
    /\ BuiltOk
    /\ \E i, j, k \in 1..Len(mwtable) :
        /\ i < j /\ j < k
        /\ mtable[i].atype = "Init" /\ mtable[j].atype # "Init"
        /\ Loc(mtable[i]) = Loc(mtable[j]) /\ Loc(mtable[j]) = Loc(mtable[k])
        /\ mwtable[i].end_eid = mtable[j].eid
        /\ mwtable[j].end_eid = mtable[k].eid
        /\ mtable[j].eid < mtable[k].eid
        /\ mwtable[k].end_eid = Sentinel

\* C2: every Heap or Global (ltype, offset) pair of the table has exactly one
\* Init row, whatever value types and mutability flags its accesses carry.
C2_OneInitPerPair ==
    BuiltOk =>
        \A i \in 1..Len(mtable) :
            mtable[i].ltype \in {"Heap", "Global"}
                => Cardinality(InitRowsAt(mtable, Loc(mtable[i]))) = 1

\* the Heap/Global locations the trace reads or writes
AccessedInitLocations ==
    {Loc(e) : e \in {x \in Range(expand_steps(etable)) : x.ltype \in {"Heap", "Global"}}}

\* an Init row (eid 0, emid 0) of loc with value v that precedes every access row of loc
HasLeadingInit(loc, v) ==
    \E j \in InitRowsAt(mtable, loc) :
        /\ mtable[j].eid = 0 /\ mtable[j].emid = 0
        /\ mtable[j].value = v
        /\ \A k \in AccessRowsAt(mtable, loc) : j < k

\* C3: a table is built, and for every accessed Heap/Global location it has an
\* Init row (eid 0, emid 0) before all Read/Write rows of the location, with the
\* InitMemoryEntry value, or with zero when the location has no entry.
C3_InitValueOrZero ==
    Built =>
        /\ status = "ok"
        /\ \A loc \in AccessedInitLocations :
            HasLeadingInit(loc, IF loc \in DOMAIN imtable THEN imtable[loc] ELSE 0)

\* access k of the expanded trace addresses a Heap/Global location without
\* an InitMemoryEntry
Unbacked(k) ==
    LET es == expand_steps(etable)
    IN  es[k].ltype \in {"Heap", "Global"} /\ Loc(es[k]) \notin DOMAIN imtable

\* an earlier access of the trace writes the location of access k
WrittenEarlier(k) ==
    LET es == expand_steps(etable)
    IN  \E j \in 1..(k - 1) : es[j].atype = "Write" /\ Loc(es[j]) = Loc(es[k])

\* C4: the call aborts exactly when some Heap/Global access has no
\* InitMemoryEntry and no earlier Write; an access without an entry whose
\* location was written earlier does not abort.
C4_AbortIffUnderivable ==
    Built =>
        /\ status = "panic" <=>
            \E k \in 1..Len(expand_steps(etable)) : Unbacked(k) /\ ~WrittenEarlier(k)
        /\ (\E k \in 1..Len(expand_steps(etable)) : Unbacked(k) /\ WrittenEarlier(k))
            => status # "panic"

\* C5: the table is sorted by (ltype, offset, eid, emid), and a second run on
\* the same event stream and initial-memory table returns the identical rows.
C5_SortedAndDeterministic ==
    [][(pc = "built" /\ pc' = "built") =>
            (SortedByRowKey(mtable') /\ mtable' = mtable)]_vars

\* C6 as claimed: no two rows of one location have the same execution id.
C6_DistinctEids ==
    BuiltOk =>
        \A i, j \in 1..Len(mtable) :
            (i # j /\ Loc(mtable[i]) = Loc(mtable[j])) => mtable[i].eid # mtable[j].eid

\* C6 (amended): two rows of one location share both the execution id and the sub id only
\* if both are Init rows; rows of one location may share an execution id, and
\* then the sub id separates them.
C6_DistinctIds ==
    BuiltOk =>
        \A i, j \in 1..Len(mtable) :
            (/\ i # j
             /\ Loc(mtable[i]) = Loc(mtable[j])
             /\ mtable[i].eid = mtable[j].eid
             /\ mtable[i].emid = mtable[j].emid)
            => (mtable[i].atype = "Init" /\ mtable[j].atype = "Init")

\* one step reads and writes the same location: equal eid, different sub ids
C6_Witness ==
    /\ BuiltOk
    /\ \E i, j \in 1..Len(mtable) :
        /\ Loc(mtable[i]) = Loc(mtable[j])
        /\ mtable[i].atype = "Read" /\ mtable[j].atype = "Write"
        /\ mtable[i].eid = mtable[j].eid
        /\ mtable[i].emid < mtable[j].emid

---------------------------------------------------------------------------
(* The event table: entries, opcodes and their encoders *)

\* steps of a trace given to EventTableChip::assign
MaxEvents == 3

\* row block of one step (circuits/etable, the value is not in the sources)
EVENT_TABLE_ENTRY_ROWS == 4

HostCalls == {"wasm_input", "context_in", "context_out", "external"}

Opcode(class, drop, keep, host) ==
    [class |-> class, drop |-> drop, keep |-> keep, host |-> host]

Opcodes ==
    {Opcode("Const", 0, 0, "none"), Opcode("Call", 0, 0, "none"),
     Opcode("Return", 0, 0, "none"), Opcode("Return", 1, 1, "none")}
    \cup {Opcode("CallHost", 0, 0, h) : h \in HostCalls}

\* EventTableOpcodeConfig: what the encoder of an entry's opcode reports
memory_writing_ops(entry) ==
    LET opcode == entry.inst.opcode
    IN  CASE opcode.class = "Const" -> 1
          [] opcode.class = "Return" -> opcode.keep
          [] opcode.class = "CallHost" -> IF opcode.host \in {"wasm_input", "context_in"} THEN 1 ELSE 0
          [] OTHER -> 0

jops(opcode) == IF opcode.class \in {"Call", "Return"} THEN 1 ELSE 0

is_host_public_input(entry) ==
    entry.inst.opcode.class = "CallHost" /\ entry.inst.opcode.host = "wasm_input"
is_context_input_op(entry) ==
    entry.inst.opcode.class = "CallHost" /\ entry.inst.opcode.host = "context_in"
is_context_output_op(entry) ==
    entry.inst.opcode.class = "CallHost" /\ entry.inst.opcode.host = "context_out"
is_external_host_call(entry) ==
    entry.inst.opcode.class = "CallHost" /\ entry.inst.opcode.host = "external"

\* etable::EventTableEntry as far as the event table and the slicer read it
EventEntry(eid, fid, iid, opcode, sp, last_jump_eid, allocated_memory_pages) ==
    [eid |-> eid, inst |-> [fid |-> fid, iid |-> iid, opcode |-> opcode],
     sp |-> sp, last_jump_eid |-> last_jump_eid,
     allocated_memory_pages |-> allocated_memory_pages]

\* the interpreter's first step runs in the state the run starts from
first_entry(st, opcode) ==
    EventEntry(st.eid, st.fid, st.iid, opcode, st.sp, st.frame_id, st.initial_memory_pages)

\* the interpreter's next step after entry prev
next_entry(prev, opcode) ==
    LET p == prev.inst.opcode
    IN  CASE p.class = "Call" ->
                EventEntry(prev.eid + 1, prev.inst.fid + 1, 0, opcode, prev.sp,
                           prev.eid, prev.allocated_memory_pages)
          [] p.class = "Return" ->
                EventEntry(prev.eid + 1, 0, prev.inst.iid + 1, opcode, prev.sp + p.drop,
                           0, prev.allocated_memory_pages)
          [] p.class = "Const" ->
                EventEntry(prev.eid + 1, prev.inst.fid, prev.inst.iid + 1, opcode,
                           prev.sp - 1, prev.last_jump_eid, prev.allocated_memory_pages)
          [] OTHER ->
                EventEntry(prev.eid + 1, prev.inst.fid, prev.inst.iid + 1, opcode,
                           prev.sp, prev.last_jump_eid, prev.allocated_memory_pages)

executed(et, st, opcode) ==
    Append(et, IF et = <<>> THEN first_entry(st, opcode) ELSE next_entry(et[Len(et)], opcode))

\* wasmi_interpreter.rs:161-174  the state a compiled image starts from
CompiledState ==
    [eid |-> 1, fid |-> 0, iid |-> 0, frame_id |-> 0, sp |-> 4095,
     initial_memory_pages |-> 1, maximal_memory_pages |-> 2,
     input_index |-> 1, context_input_index |-> 1, context_output_index |-> 1,
     external_host_call_index |-> 1, jops |-> 0]

\* the state of a run that is resumed after earlier steps
ResumedState ==
    [eid |-> 6, fid |-> 1, iid |-> 2, frame_id |-> 3, sp |-> 4090,
     initial_memory_pages |-> 1, maximal_memory_pages |-> 2,
     input_index |-> 3, context_input_index |-> 2, context_output_index |-> 4,
     external_host_call_index |-> 5, jops |-> 2]

InitializationStates == {CompiledState, ResumedState}

\* usable rows of the circuit: room for two steps, and for three and a row more
AvailableRows == {2 * EVENT_TABLE_ENTRY_ROWS, 3 * EVENT_TABLE_ENTRY_ROWS + 1}

---------------------------------------------------------------------------
(* EventTableChip::assign *)

\* faulty variant: the sums are recorded before the entry's own ops are added
RECURSIVE rest_ops_Exclusive(_, _)
rest_ops_Exclusive(event_table, i) ==
    IF i > Len(event_table)
    THEN <<>>
    ELSE LET tail == rest_ops_Exclusive(event_table, i + 1)
         IN  <<IF tail = <<>>
               THEN <<0, 0>>
               ELSE <<tail[1][1] + memory_writing_ops(event_table[i + 1]),
                      tail[1][2] + jops(event_table[i + 1].inst.opcode)>>>> \o tail

\* assign.rs:22-51  (rest_mops, rest_jops) of every entry: the sums over the
\* entry and all entries after it
RECURSIVE rest_ops_from(_, _)
rest_ops_from(event_table, i) ==
    IF i > Len(event_table)
    THEN <<>>
    ELSE LET tail == rest_ops_from(event_table, i + 1)
             acc == IF tail = <<>> THEN <<0, 0>> ELSE tail[1]
         IN  <<<<acc[1] + memory_writing_ops(event_table[i]),
                 acc[2] + jops(event_table[i].inst.opcode)>>>> \o tail

compute_rest_mops_and_jops(event_table) == rest_ops_from(event_table, 1)

\* an assignment is <<cell, row, value>>; a later assignment of a cell replaces
\* an earlier one
Assigned(assignments) ==
    LET addrs == {<<a[1], a[2]>> : a \in Range(assignments)}
        last(addr) == CHOOSE i \in 1..Len(assignments) :
                          /\ <<assignments[i][1], assignments[i][2]>> = addr
                          /\ \A j \in (i + 1)..Len(assignments) :
                                <<assignments[j][1], assignments[j][2]>> # addr
    IN  [addr \in addrs |-> Some(assignments[last(addr)][3])]

\* the first pass of the layouter assigns the cells without values
WithoutValues(cs) == [addr \in DOMAIN cs |-> None]

\* assign.rs:53-82  step_sel of every row block the table has room for, then
\* the constant zero of rest_mops in the row after them
init_cells(rows) ==
    LET capacity == rows \div EVENT_TABLE_ENTRY_ROWS
    IN  [i \in 1..capacity |-> <<"step_sel", (i - 1) * EVENT_TABLE_ENTRY_ROWS, 1>>]
        \o <<<<"rest_mops", capacity * EVENT_TABLE_ENTRY_ROWS, 0>>>>

\* assign.rs:105-168  the initialization state in the first row block
initialization_state_cells(st) ==
    <<<<"eid", 0, st.eid>>, <<"fid", 0, st.fid>>, <<"iid", 0, st.iid>>,
      <<"sp", 0, st.sp>>, <<"frame_id", 0, st.frame_id>>,
      <<"input_index", 0, st.input_index>>,
      <<"context_input_index", 0, st.context_input_index>>,
      <<"context_output_index", 0, st.context_output_index>>,
      <<"external_host_call_index", 0, st.external_host_call_index>>,
      <<"mpages", 0, st.initial_memory_pages>>,
      <<"maximal_memory_pages", 0, st.maximal_memory_pages>>,
      <<"jops", 0, st.jops>>>>

\* faulty variant: a consumed cursor is not advanced
advance_Never(cursor, consumes) == cursor

\* assign.rs:297-308  a cursor moves by one if the step's encoder reports it
advance(cursor, consumes) == IF consumes THEN cursor + 1 ELSE cursor

\* assign.rs:190-193, 297-308  the four cursors before step index (from 1)
RECURSIVE cursors_before(_, _, _)
cursors_before(event_table, st, index) ==
    IF index = 1
    THEN [host_public_inputs |-> st.input_index,
          context_in_index |-> st.context_input_index,
          context_out_index |-> st.context_output_index,
          external_host_call_call_index |-> st.external_host_call_index]
    ELSE LET c == cursors_before(event_table, st, index - 1)
             entry == event_table[index - 1]
         IN  [host_public_inputs |-> advance(c.host_public_inputs, is_host_public_input(entry)),
              context_in_index |-> advance(c.context_in_index, is_context_input_op(entry)),
              context_out_index |-> advance(c.context_out_index, is_context_output_op(entry)),
              external_host_call_call_index |->
                  advance(c.external_host_call_call_index, is_external_host_call(entry))]

\* faulty variant: the row offset moves on before the step is assigned
step_offset_Early(index) == index * EVENT_TABLE_ENTRY_ROWS

\* assign.rs:247, 310  the row block of step index (from 1)
step_offset(index) == (index - 1) * EVENT_TABLE_ENTRY_ROWS

\* faulty variant: the stack pointer of the last step is kept
terminate_status_KeepSp(event_table) ==
    LET last == event_table[Len(event_table)]
    IN  [eid |-> last.eid + 1, fid |-> 0, iid |-> 0, sp |-> last.sp,
         last_jump_eid |-> 0,
         allocated_memory_pages |-> last.allocated_memory_pages]

\* assign.rs:226-245  the status after the last step
terminate_status(event_table) ==
    LET last == event_table[Len(event_table)]
    IN  [eid |-> last.eid + 1, fid |-> 0, iid |-> 0,
         sp |-> last.sp + last.inst.opcode.drop,
         last_jump_eid |-> 0,
         allocated_memory_pages |-> last.allocated_memory_pages]

\* assign.rs:234-241  a trace that does not end with Return is unreachable!()
ends_with_return(event_table) ==
    event_table[Len(event_table)].inst.opcode.class = "Return"

\* faulty variant: the frame id cell gets the eid of the step
step_cells_OwnEid(event_table, st, rest_ops, index) ==
    LET entry == event_table[index]
        row == step_offset(index)
        c == cursors_before(event_table, st, index)
    IN  <<<<"op_" \o entry.inst.opcode.class, row, 1>>,
          <<"enabled", row, 1>>,
          <<"rest_mops", row, rest_ops[index][1]>>,
          <<"input_index", row, c.host_public_inputs>>,
          <<"context_input_index", row, c.context_in_index>>,
          <<"context_output_index", row, c.context_out_index>>,
          <<"external_host_call_index", row, c.external_host_call_call_index>>,
          <<"sp", row, entry.sp>>,
          <<"mpages", row, entry.allocated_memory_pages>>,
          <<"maximal_memory_pages", row, st.maximal_memory_pages>>,
          <<"frame_id", row, entry.eid>>,
          <<"eid", row, entry.eid>>,
          <<"fid", row, entry.inst.fid>>,
          <<"iid", row, entry.inst.iid>>,
          <<"itable_lookup", row, entry.inst>>>>

\* assign.rs:247-311  the cells of step index; the cells of the opcode's own
\* encoder (op_config.assign) lie outside the common cells and are left out
step_cells(event_table, st, rest_ops, index) ==
    LET entry == event_table[index]
        row == step_offset(index)
        c == cursors_before(event_table, st, index)
    IN  <<<<"op_" \o entry.inst.opcode.class, row, 1>>,
          <<"enabled", row, 1>>,
          <<"rest_mops", row, rest_ops[index][1]>>,
          <<"input_index", row, c.host_public_inputs>>,
          <<"context_input_index", row, c.context_in_index>>,
          <<"context_output_index", row, c.context_out_index>>,
          <<"external_host_call_index", row, c.external_host_call_call_index>>,
          <<"sp", row, entry.sp>>,
          <<"mpages", row, entry.allocated_memory_pages>>,
          <<"maximal_memory_pages", row, st.maximal_memory_pages>>,
          <<"frame_id", row, entry.last_jump_eid>>,
          <<"eid", row, entry.eid>>,
          <<"fid", row, entry.inst.fid>>,
          <<"iid", row, entry.inst.iid>>,
          <<"itable_lookup", row, entry.inst>>>>

\* assign.rs:313-336  the terminal row block
terminate_cells(event_table, st) ==
    LET t == terminate_status(event_table)
        row == Len(event_table) * EVENT_TABLE_ENTRY_ROWS
        c == cursors_before(event_table, st, Len(event_table) + 1)
    IN  <<<<"eid", row, t.eid>>, <<"fid", row, t.fid>>, <<"iid", row, t.iid>>,
          <<"sp", row, t.sp>>, <<"frame_id", row, t.last_jump_eid>>,
          <<"mpages", row, t.allocated_memory_pages>>,
          <<"maximal_memory_pages", row, st.maximal_memory_pages>>,
          <<"input_index", row, c.host_public_inputs>>,
          <<"context_input_index", row, c.context_in_index>>,
          <<"context_output_index", row, c.context_out_index>>,
          <<"external_host_call_index", row, c.external_host_call_call_index>>>>

\* faulty variant: the first enabled cell is assigned one, as in a step row
entries_cells_EnabledOne(event_table, st, rest_ops) ==
    <<<<"enabled", 0, 1>>>>
    \o (IF Len(event_table) = 0
        THEN <<>>
        ELSE Concat([i \in 1..Len(event_table) |-> step_cells(event_table, st, rest_ops, i)])
             \o terminate_cells(event_table, st))

\* assign.rs:170-339  with values: the enabled cell of the first row, then the
\* steps and the terminal row of a trace that is not empty
entries_cells(event_table, st, rest_ops) ==
    <<<<"enabled", 0, 0>>>>
    \o (IF Len(event_table) = 0
        THEN <<>>
        ELSE Concat([i \in 1..Len(event_table) |-> step_cells(event_table, st, rest_ops, i)])
             \o terminate_cells(event_table, st))

\* the value of a cell; a cell that is not assigned a value holds zero
CellValue(cell, row) ==
    IF <<cell, row>> \in DOMAIN cells /\ cells[<<cell, row>>] # None
    THEN cells[<<cell, row>>][1]
    ELSE 0

---------------------------------------------------------------------------
(* SpecEtable: a trace is recorded step by step, then assigned *)

InitEtable ==
    /\ pc = "trace"
    /\ etable = <<>>
    /\ status = "none"
    /\ imtable = <<>> /\ mtable = <<>> /\ mwtable = <<>>
    /\ initialization_state \in InitializationStates
    /\ max_available_rows \in AvailableRows
    /\ witness \in BOOLEAN
    /\ cells = <<>>
    /\ capability = 0
    /\ slices = <<>>
    /\ NoImage

\* the interpreter executes one instruction
Execute ==
    /\ pc = "trace"
    /\ Len(etable) < MaxEvents
    /\ \E opcode \in Opcodes : etable' = executed(etable, initialization_state, opcode)
    /\ UNCHANGED <<pc, status, memVars, etVars, slVars, imgVars>>

\* faulty variant: the events are counted as rows
exceeds_capacity_Events(len, rows) == len > rows

\* faulty variant: nothing is asserted
exceeds_capacity_Never(len, rows) == FALSE

\* assign.rs:348  the negation of the asserted condition
exceeds_capacity(len, rows) == len * EVENT_TABLE_ENTRY_ROWS > rows

\* assign.rs:341-376  EventTableChip::assign.  The assertion comes before any
\* assignment; the unreachable!() of a trace that does not end with Return
\* comes after the cells of init, of the initialization state and the first
\* enabled cell.
Assign ==
    /\ pc = "trace"
    /\ pc' = "assigned"
    /\ LET rest_ops == compute_rest_mops_and_jops(etable)
           first == init_cells(max_available_rows)
                    \o initialization_state_cells(initialization_state)
                    \o <<<<"enabled", 0, 0>>>>
       IN  IF exceeds_capacity(Len(etable), max_available_rows)
           THEN status' = "panic: assert" /\ cells' = <<>>
           ELSE IF ~witness
           THEN /\ status' = "ok"
                /\ cells' = WithoutValues(Assigned(first))
           ELSE IF Len(etable) > 0 /\ ~ends_with_return(etable)
           THEN status' = "panic: unreachable" /\ cells' = Assigned(first)
           ELSE /\ status' = "ok"
                /\ cells' = Assigned(init_cells(max_available_rows)
                                     \o initialization_state_cells(initialization_state)
                                     \o entries_cells(etable, initialization_state, rest_ops))
    /\ UNCHANGED <<etable, memVars, initialization_state, max_available_rows, witness, slVars, imgVars>>

NextEtable == Execute \/ Assign

SpecEtable == InitEtable /\ [][NextEtable]_vars

---------------------------------------------------------------------------
(* Properties of the event table *)

AssignedOk == pc = "assigned" /\ status = "ok" /\ witness

\* the row block of step i (from 1); the terminal row block follows the last step
RowOfStep(i) == (i - 1) * EVENT_TABLE_ENTRY_ROWS
TerminalRow == RowOfStep(Len(etable) + 1)

CursorCells ==
    {"input_index", "context_input_index", "context_output_index",
     "external_host_call_index"}

Consumes(cell, entry) ==
    CASE cell = "input_index" -> is_host_public_input(entry)
      [] cell = "context_input_index" -> is_context_input_op(entry)
      [] cell = "context_output_index" -> is_context_output_op(entry)
      [] cell = "external_host_call_index" -> is_external_host_call(entry)

\* C8: over the step rows and the terminal row, each of the four cursors
\* starts at its value in the initialization state and, from the row of step i
\* to the next row, grows by 1 if the encoder of step i reports that the step
\* consumes it and stays as it is otherwise.
C8_CursorsFollowEncoders ==
    (AssignedOk /\ Len(etable) > 0) =>
        \A cell \in CursorCells :
            /\ CellValue(cell, 0) = initialization_state[cell]
            /\ \A i \in 1..Len(etable) :
                LET here == CellValue(cell, RowOfStep(i))
                    there == CellValue(cell, RowOfStep(i + 1))
                IN  /\ there >= here
                    /\ there - here <= 1
                    /\ there - here = 1 <=> Consumes(cell, etable[i])

\* a run resumed with cursors that differ, one of which is consumed twice
C8_Witness ==
    /\ AssignedOk
    /\ initialization_state = ResumedState
    /\ \E cell \in CursorCells :
        /\ CellValue(cell, TerminalRow) = initialization_state[cell] + 2
        /\ \E other \in CursorCells \ {cell} :
            CellValue(other, TerminalRow) = initialization_state[other]

---------------------------------------------------------------------------
(* Slices::from_table *)

\* steps of a trace given to Slices::from_table
MaxSliceEvents == 9

\* the opcodes of the traces that are sliced
SliceOpcodes ==
    {Opcode("Const", 0, 0, "none"), Opcode("Call", 0, 0, "none"),
     Opcode("Return", 0, 0, "none")}

\* capacities given to from_table
Capabilities == 0..3

\* the state a sliced run starts from (slice.rs:33, 72-81: the fields of the
\* state the slicer reads and builds); rest_jops counts the jumps of the run
GenesisState ==
    [eid |-> 1, fid |-> 0, iid |-> 0, frame_id |-> 0, sp |-> 4095,
     initial_memory_pages |-> 1, rest_jops |-> 0, is_very_first_step |-> TRUE]

\* slice.rs:35-43  <[T]>::chunks(chunk_size) for chunk_size > 0
RECURSIVE chunks(_, _)
chunks(entries, chunk_size) ==
    IF Len(entries) = 0
    THEN <<>>
    ELSE IF Len(entries) <= chunk_size
    THEN <<entries>>
    ELSE <<SubSeq(entries, 1, chunk_size)>>
         \o chunks(SubSeq(entries, chunk_size + 1, Len(entries)), chunk_size)

\* slice.rs:39  (capability - 1) * EVENT_TABLE_ENTRY_ROWS for capability > 0
chunk_size_of(cap) == (cap - 1) * EVENT_TABLE_ENTRY_ROWS

\* slice.rs:35-43  the chunks of the trace; with capability 0 the size wraps
\* to a number above every length and the trace is one chunk
etable_chunks(entries, cap) ==
    IF cap = 0
    THEN IF Len(entries) = 0 THEN <<>> ELSE <<entries>>
    ELSE chunks(entries, chunk_size_of(cap))

\* faulty variant: no chunk gets the entry before it
insert_first_entries_None(etable_slices) == etable_slices

\* slice.rs:45-48  every chunk after the first gets the last entry of the
\* chunk before it in front
insert_first_entries(etable_slices) ==
    [index \in 1..Len(etable_slices) |->
        IF index = 1
        THEN etable_slices[index]
        ELSE <<etable_slices[index - 1][Len(etable_slices[index - 1])]>>
             \o etable_slices[index]]

\* slice.rs:17-21  the jump ops of all entries of a slice
RECURSIVE slice_jops(_)
slice_jops(entries) ==
    IF entries = <<>>
    THEN 0
    ELSE jops(entries[1].inst.opcode) + slice_jops(Tail(entries))

\* slice.rs:33, 91  rest_jops when slice current_slice (from 1) is built
RECURSIVE rest_jops_at(_, _, _)
rest_jops_at(etable_slices, st, current_slice) ==
    IF current_slice = 1
    THEN st.rest_jops
    ELSE rest_jops_at(etable_slices, st, current_slice - 1)
         - slice_jops(etable_slices[current_slice - 1])

\* faulty variant: the state is read from the last entry of the slice
slice_state_LastEntry(etable_slices, st, current_slice) ==
    IF current_slice = 1
    THEN st
    ELSE LET first_etable_entry ==
                etable_slices[current_slice][Len(etable_slices[current_slice])]
         IN  [eid |-> first_etable_entry.eid,
              fid |-> first_etable_entry.inst.fid,
              iid |-> first_etable_entry.inst.iid,
              frame_id |-> first_etable_entry.last_jump_eid,
              sp |-> first_etable_entry.sp,
              initial_memory_pages |-> first_etable_entry.allocated_memory_pages,
              rest_jops |-> rest_jops_at(etable_slices, st, current_slice),
              is_very_first_step |-> FALSE]

\* slice.rs:67-82  the initialization state of a slice
slice_state(etable_slices, st, current_slice) ==
    IF current_slice = 1
    THEN st
    ELSE LET first_etable_entry == etable_slices[current_slice][1]
         IN  [eid |-> first_etable_entry.eid,
              fid |-> first_etable_entry.inst.fid,
              iid |-> first_etable_entry.inst.iid,
              frame_id |-> first_etable_entry.last_jump_eid,
              sp |-> first_etable_entry.sp,
              initial_memory_pages |-> first_etable_entry.allocated_memory_pages,
              rest_jops |-> rest_jops_at(etable_slices, st, current_slice),
              is_very_first_step |-> FALSE]

\* slice.rs:50-93  the slices
make_slices(etable_slices, st) ==
    [current_slice \in 1..Len(etable_slices) |->
        [initialization_state |-> slice_state(etable_slices, st, current_slice),
         etable |-> etable_slices[current_slice],
         current_slice |-> current_slice - 1,
         total_slice |-> Len(etable_slices)]]

---------------------------------------------------------------------------
(* SpecSlices: a trace is recorded step by step, then split *)

InitSlices ==
    /\ pc = "trace"
    /\ etable = <<>>
    /\ status = "none"
    /\ imtable = <<>> /\ mtable = <<>> /\ mwtable = <<>>
    /\ initialization_state = GenesisState
    /\ max_available_rows = 0
    /\ witness = FALSE
    /\ cells = <<>>
    /\ capability = 0
    /\ slices = <<>>
    /\ NoImage

\* the interpreter executes one instruction and counts its jump
ExecuteStep ==
    /\ pc = "trace"
    /\ Len(etable) < MaxSliceEvents
    /\ \E opcode \in SliceOpcodes :
        /\ etable' = executed(etable, initialization_state, opcode)
        /\ initialization_state' =
            [initialization_state EXCEPT !.rest_jops = @ + jops(opcode)]
    /\ UNCHANGED <<pc, status, memVars, max_available_rows, witness, cells, slVars, imgVars>>

\* slice.rs:32-98  Slices::from_table.  An unsigned subtraction below zero
\* panics in a build with overflow checks and wraps in one without; chunks
\* panics on size zero.
FromTable ==
    /\ pc = "trace"
    /\ pc' = "sliced"
    /\ \E cap \in Capabilities, overflow_checks \in BOOLEAN :
        /\ capability' = cap
        /\ IF (cap = 0 /\ overflow_checks) \/ cap = 1
           THEN status' = "panic" /\ slices' = <<>>
           ELSE LET etable_slices == insert_first_entries(etable_chunks(etable, cap))
                    rest == rest_jops_at(etable_slices, initialization_state,
                                         Len(etable_slices) + 1)
                IN  IF overflow_checks /\ rest < 0
                    THEN status' = "panic" /\ slices' = <<>>
                    ELSE /\ status' = "ok"
                         /\ slices' = make_slices(etable_slices, initialization_state)
    /\ UNCHANGED <<etable, memVars, etVars, imgVars>>

NextSlices == ExecuteStep \/ FromTable

SpecSlices == InitSlices /\ [][NextSlices]_vars

---------------------------------------------------------------------------
(* Properties of the slices *)

SlicedOk == pc = "sliced" /\ status = "ok"

LastEvent(slice) == slice.etable[Len(slice.etable)]

\* the number of steps of the trace before the step with execution id eid
\* that satisfy consumes
ConsumedBefore(eid, consumes(_)) ==
    Cardinality({i \in 1..Len(etable) : etable[i].eid < eid /\ consumes(etable[i])})

\* the state derived from an event: the state the interpreter is in when it
\* executes it; the cursors count from 1 (wasmi_interpreter.rs:169-172)
DerivedState(event) ==
    [eid |-> event.eid, fid |-> event.inst.fid, iid |-> event.inst.iid,
     frame_id |-> event.last_jump_eid, sp |-> event.sp,
     initial_memory_pages |-> event.allocated_memory_pages,
     input_index |-> 1 + ConsumedBefore(event.eid, is_host_public_input),
     context_input_index |-> 1 + ConsumedBefore(event.eid, is_context_input_op),
     context_output_index |-> 1 + ConsumedBefore(event.eid, is_context_output_op),
     external_host_call_index |-> 1 + ConsumedBefore(event.eid, is_external_host_call)]

\* C9: the initialization state of slice k+1 has every field of the state
\* derived from the last event of slice k, the four I/O cursors among them,
\* with the same value, and its rest_jops is the rest_jops of slice k less the
\* jump ops of slice k.
C9_StateDerivedFromLastEvent ==
    SlicedOk =>
        \A k \in 1..(Len(slices) - 1) :
            LET st == slices[k + 1].initialization_state
                derived == DerivedState(LastEvent(slices[k]))
            IN  /\ \A field \in DOMAIN derived :
                    field \in DOMAIN st /\ st[field] = derived[field]
                /\ st.rest_jops =
                    slices[k].initialization_state.rest_jops - slice_jops(slices[k].etable)

\* the events of the slices without the first event of every slice after the first
RealEvents ==
    Concat([k \in 1..Len(slices) |->
        IF k = 1 THEN slices[k].etable ELSE Tail(slices[k].etable)])

\* how often an event stands in the slices
Occurrences(event) ==
    Cardinality({<<k, i>> \in (1..Len(slices)) \X (1..MaxSliceEvents + 1) :
        i <= Len(slices[k].etable) /\ slices[k].etable[i] = event})

BoundaryEvents == {LastEvent(slices[k]) : k \in 1..(Len(slices) - 1)}

\* C10: the slices' events without the first event of every slice after the
\* first are the trace; the last event of a slice is the first event of the
\* next slice, stands twice in the slices, and every other event stands once.
C10_SlicesRebuildTrace ==
    SlicedOk =>
        /\ RealEvents = etable
        /\ \A k \in 1..(Len(slices) - 1) :
            LastEvent(slices[k]) = slices[k + 1].etable[1]
        /\ \A event \in Range(etable) :
            Occurrences(event) = IF event \in BoundaryEvents THEN 2 ELSE 1

\* a trace split into three slices: two seams
C10_Witness ==
    /\ SlicedOk
    /\ Len(slices) = 3
    /\ Len(etable) = MaxSliceEvents
    /\ Len(slices[2].etable) = chunk_size_of(capability) + 1
    /\ Len(slices[3].etable) = 2

\* the input events that the slices before slice k (from 1) contain, each once
DistinctEventsBefore(k) ==
    Concat([j \in 1..(k - 1) |->
        IF j = 1 THEN slices[j].etable ELSE Tail(slices[j].etable)])

\* C11: the rest_jops stored in every slice is the rest_jops of the run's
\* first state less the jump ops of the input events that the slices before
\* it contain, the event at a seam being charged once.
C11_BoundaryChargedOnce ==
    SlicedOk =>
        \A k \in 1..Len(slices) :
            slices[k].initialization_state.rest_jops =
                initialization_state.rest_jops - slice_jops(DistinctEventsBefore(k))

---------------------------------------------------------------------------
(* The image table: encoding, assignment and checksum *)

\* instructions of a compiled image
MaxInstructions == 2

\* the order of the scalar field; the curve group has the same prime order
\* and is written additively as the integers modulo it
FieldOrder == 32749

\* utils::bn_to_field, F::from
bn_to_field(v) == v % FieldOrder

InstructionSet ==
    {[fid |-> 0, iid |-> 0, opcode |-> "Const"], [fid |-> 0, iid |-> 1, opcode |-> "BrTable"]}

\* InstructionTableEntry::encode, BrTableEntry::encode, ElemEntry::encode,
\* InitMemoryTableEntry::encode: the fields packed into one number above zero
encode_instruction(e) == 1 + e.iid + 4 * e.fid + (IF e.opcode = "BrTable" THEN 16 ELSE 0)
encode_br(e) == 1 + e.iid + 4 * e.fid
encode_elem(e) == 64 + e
encode_init_memory(e) == 1 + e.value + 16 * e.offset + (IF e.ltype = "Global" THEN 256 ELSE 0)

\* specs::encode::image_table::ImageTableEncoder::encode: the tag of the
\* sub-table above the bits of the entry
ImageTableEncoder_encode(tag, v) ==
    (CASE tag = "Instruction" -> 1 [] tag = "BrTable" -> 2 [] tag = "InitMemory" -> 3) * 4096 + v

\* StaticFrameEntry::encode
encode_static_frame(e) ==
    (IF e.enable THEN 1024 ELSE 0) + 256 * e.frame_id + 64 * e.next_frame_id
    + 16 * e.callee_fid + 4 * e.fid + e.iid

\* wasmi_interpreter.rs:119-155  the static frame entries of a compiled module
static_jtable_entries(idx_of_entry, has_start) ==
    <<[enable |-> TRUE, frame_id |-> 0, next_frame_id |-> 0,
       callee_fid |-> idx_of_entry, fid |-> 0, iid |-> 0]>>
    \o (IF has_start
        THEN <<[enable |-> TRUE, frame_id |-> 0, next_frame_id |-> 0,
                callee_fid |-> 0, fid |-> idx_of_entry, iid |-> 0]>>
        ELSE <<>>)

\* wasmi_interpreter.rs:119-174  the tables of a compiled module
Compiled(itable, elem_table, imtable_entries, idx_of_entry, has_start) ==
    [itable |-> itable,
     elem_table |-> elem_table,
     imtable |-> imtable_entries,
     static_jtable |-> static_jtable_entries(idx_of_entry, has_start),
     initialization_state |->
        [CompiledState EXCEPT !.fid = IF has_start THEN 0 ELSE idx_of_entry]]

\* InstructionTable::create_brtable: the targets of the BrTable instructions
create_brtable(itable) ==
    LET idx == {i \in 1..Len(itable) : itable[i].opcode = "BrTable"}
    IN  IF idx = {} THEN <<>> ELSE <<itable[CHOOSE i \in idx : TRUE]>>

HeapImage == [ltype |-> "Heap", offset |-> 0, value |-> 5]
GlobalImage == [ltype |-> "Global", offset |-> 0, value |-> 5]

CompilationTables ==
    {Compiled(it, el, im, 1, hs) :
        it \in UNION {[1..n -> InstructionSet] : n \in 0..MaxInstructions},
        el \in {<<>>, <<1>>},
        im \in {<<>>, <<HeapImage>>, <<GlobalImage>>, <<GlobalImage, HeapImage>>},
        hs \in BOOLEAN}

\* image_table/mod.rs:64-68
msg_of_initialization_state(st) == [f \in DOMAIN st |-> bn_to_field(st[f])]

\* image_table/mod.rs:70-84
msg_of_instruction_table(itable) ==
    <<bn_to_field(ImageTableEncoder_encode("Instruction", 0))>>
    \o [i \in 1..Len(itable) |->
            bn_to_field(ImageTableEncoder_encode("Instruction", encode_instruction(itable[i])))]

\* image_table/mod.rs:86-102
msg_of_br_table(br_table, elem_table) ==
    <<bn_to_field(ImageTableEncoder_encode("BrTable", 0))>>
    \o [i \in 1..Len(br_table) |->
            bn_to_field(ImageTableEncoder_encode("BrTable", encode_br(br_table[i])))]
    \o [i \in 1..Len(elem_table) |->
            bn_to_field(ImageTableEncoder_encode("BrTable", encode_elem(elem_table[i])))]

\* InitMemoryTable::filter
filter(entries, ltype) == SelectSeq(entries, LAMBDA e : e.ltype = ltype)

\* image_table/mod.rs:104-121  heap entries, then global entries
msg_of_init_memory_table(init_memory_table) ==
    LET entries == filter(init_memory_table, "Heap") \o filter(init_memory_table, "Global")
    IN  <<bn_to_field(ImageTableEncoder_encode("InitMemory", 0))>>
        \o [i \in 1..Len(entries) |->
                bn_to_field(ImageTableEncoder_encode("InitMemory", encode_init_memory(entries[i])))]

\* image_table/mod.rs:129-133  the rows of the three sub-tables
image_table_rows(itable, br_table, elem_table, init_memory_table) ==
    msg_of_instruction_table(itable)
    \o msg_of_br_table(br_table, elem_table)
    \o msg_of_init_memory_table(init_memory_table)

\* image_table/mod.rs:135-137  for _ in cells.len()..max_image_table_rows()
zero_rows(len, max_rows) == [i \in 1..(max_rows - len) |-> 0]

\* image_table/mod.rs:123-140
msg_of_image_table(itable, br_table, elem_table, init_memory_table, max_rows) ==
    LET cs == image_table_rows(itable, br_table, elem_table, init_memory_table)
    IN  cs \o zero_rows(Len(cs), max_rows)

DisabledStaticFrameEntry ==
    [enable |-> FALSE, frame_id |-> 0, next_frame_id |-> 0, callee_fid |-> 0,
     fid |-> 0, iid |-> 0]

\* faulty variant: the table is filled up with a copy of its first entry
resize_CopyFirst(v, new_len, value) ==
    [i \in 1..new_len |-> IF i <= Len(v) THEN v[i] ELSE v[1]]

\* image_table/mod.rs:150-166  Vec::resize(new_len, value): the vector cut to
\* new_len or filled up with value
resize(v, new_len, value) ==
    [i \in 1..new_len |-> IF i <= Len(v) THEN v[i] ELSE value]

\* image_table/mod.rs:142-169
msg_of_static_frame_table(static_frame_table) ==
    resize(
        [i \in 1..Len(static_frame_table) |->
            <<1, bn_to_field(encode_static_frame(static_frame_table[i]))>>],
        2,
        <<0, bn_to_field(encode_static_frame(DisabledStaticFrameEntry))>>)

\* image_table/mod.rs:62-185
encode_compilation_table_values(table, max_rows) ==
    [initialization_state |-> msg_of_initialization_state(table.initialization_state),
     static_frame_entries |-> msg_of_static_frame_table(table.static_jtable),
     lookup_entries |->
        msg_of_image_table(table.itable, create_brtable(table.itable), table.elem_table,
                           table.imtable, max_rows)]

\* lib.rs:78-93  InitializationState::plain
InitializationState_plain(st) ==
    <<st.eid, st.fid, st.iid, st.frame_id, st.sp, st.initial_memory_pages,
      st.maximal_memory_pages, st.input_index, st.context_input_index,
      st.context_output_index, st.external_host_call_index, st.jops>>

\* image_table/mod.rs:37-56  ImageTableLayouter::plain
plain(layouter) ==
    InitializationState_plain(layouter.initialization_state)
    \o Concat([i \in 1..Len(layouter.static_frame_entries) |->
                <<layouter.static_frame_entries[i][1], layouter.static_frame_entries[i][2]>>])
    \o layouter.lookup_entries

\* Params::get_g_lagrange: bases of the group, none of them its zero
ParamsSet ==
    {[i \in 1..n |-> 1 + ((seed * i) % (FieldOrder - 1))] : n \in {16, 32}, seed \in {1, 7919}}

\* best_multiexp: the sum of the bases, each taken coeff times
RECURSIVE best_multiexp(_, _)
best_multiexp(coeffs, bases) ==
    IF coeffs = <<>>
    THEN 0
    ELSE (coeffs[1] * bases[1] + best_multiexp(Tail(coeffs), Tail(bases))) % FieldOrder

\* faulty variant: the last cell is left out of the sum
checksum_cells_DropLast(cs) == SubSeq(cs, 1, Len(cs) - 1)

\* checksum/mod.rs:19  the cells that are committed to
checksum_cells(cs) == cs

\* checksum/mod.rs:17-24  ImageTableWithParams::checksum; None stands for the
\* panic of the slice [0..cells.len()] of bases that are too few
checksum(layouter, g_lagrange) ==
    LET cs == checksum_cells(plain(layouter))
    IN  IF Len(cs) > Len(g_lagrange)
        THEN None
        ELSE Some(<<best_multiexp(cs, SubSeq(g_lagrange, 1, Len(cs)))>>)

\* faulty variant: the stack pointer is written before the frame id
assign_initialization_state_rows_SpFirst(st) ==
    <<st.eid, st.fid, st.iid, st.sp, st.frame_id, st.initial_memory_pages,
      st.maximal_memory_pages, st.input_index, st.context_input_index,
      st.context_output_index, st.external_host_call_index, st.jops>>

\* image_table/assign.rs:20-59  the initialization state, one row each
assign_initialization_state_rows(st) ==
    <<st.eid, st.fid, st.iid, st.frame_id, st.sp, st.initial_memory_pages,
      st.maximal_memory_pages, st.input_index, st.context_input_index,
      st.context_output_index, st.external_host_call_index, st.jops>>

\* image_table/assign.rs:61-110  the values of img_col from row 0 on
image_col_rows(layouter) ==
    assign_initialization_state_rows(layouter.initialization_state)
    \o Concat([i \in 1..Len(layouter.static_frame_entries) |->
                <<layouter.static_frame_entries[i][1], layouter.static_frame_entries[i][2]>>])
    \o layouter.lookup_entries

\* image_table/assign.rs:43-57, 91-101  the cell of permutation_cells that
\* each of the first rows of img_col is constrained equal to: the field of its
\* initialization state, then the enable and the encoding of each static
\* frame entry
image_col_permutation(layouter) ==
    <<"eid", "fid", "iid", "frame_id", "sp", "initial_memory_pages",
      "maximal_memory_pages", "input_index", "context_input_index",
      "context_output_index", "external_host_call_index", "jops">>
    \o Concat([i \in 1..Len(layouter.static_frame_entries) |->
                <<"static_frame_entry.0", "static_frame_entry.1">>])

\* capacities of the image table
ImageRows == {5, 9}

---------------------------------------------------------------------------
(* SpecImage: a compiled image is encoded, assigned and committed to; a
   second image differs from it in one cell *)

InitImage ==
    /\ pc = "compiled"
    /\ etable = <<>>
    /\ status = "none"
    /\ imtable = <<>> /\ mtable = <<>> /\ mwtable = <<>>
    /\ initialization_state = <<>>
    /\ max_available_rows = 0
    /\ witness = TRUE
    /\ cells = <<>>
    /\ capability = 0
    /\ slices = <<>>
    /\ compilation \in CompilationTables
    /\ max_image_table_rows \in ImageRows
    /\ image = <<>>
    /\ params \in ParamsSet
    /\ digest = <<>>

\* image_table/mod.rs:62-185  encode_compilation_table_values
EncodeImage ==
    /\ pc = "compiled"
    /\ pc' = "encoded"
    /\ status' = "ok"
    /\ image' = encode_compilation_table_values(compilation, max_image_table_rows)
    /\ UNCHANGED <<etable, memVars, etVars, slVars, compilation, max_image_table_rows,
                   params, digest>>

\* image_table/assign.rs:14-111  ImageTableChip::assign
AssignImage ==
    /\ pc = "encoded"
    /\ pc' = "image_assigned"
    /\ LET rows == image_col_rows(image)
           equal == image_col_permutation(image)
       IN  cells' = Assigned([i \in 1..Len(rows) |-> <<"img_col", i - 1, rows[i]>>]
                             \o [i \in 1..Len(equal) |-> <<"constrain_equal", i - 1, equal[i]>>])
    /\ UNCHANGED <<etable, status, memVars, initialization_state, max_available_rows,
                   witness, slVars, imgVars>>

\* checksum/mod.rs:17-24  ImageTableWithParams::checksum
Checksum ==
    /\ pc \in {"encoded", "other"}
    /\ pc' = IF pc = "encoded" THEN "summed" ELSE "both_summed"
    /\ LET c == checksum(image, params)
       IN  IF c = None
           THEN status' = "panic" /\ digest' = digest
           ELSE status' = "ok" /\ digest' = Append(digest, c[1])
    /\ UNCHANGED <<etable, memVars, etVars, slVars, compilation, max_image_table_rows,
                   image, params>>

\* the values a cell that holds v is changed to
OtherValues(v) == {0, 1, (v + 1) % FieldOrder} \ {v}

\* a second image table: the first with one serialized cell changed
OtherImage ==
    /\ pc = "summed"
    /\ status = "ok"
    /\ pc' = "other"
    /\ \/ \E f \in DOMAIN image.initialization_state :
            \E v \in OtherValues(image.initialization_state[f]) :
                image' = [image EXCEPT !.initialization_state[f] = v]
       \/ \E i \in 1..Len(image.static_frame_entries), j \in 1..2 :
            \E v \in OtherValues(image.static_frame_entries[i][j]) :
                image' = [image EXCEPT !.static_frame_entries[i][j] = v]
       \/ \E i \in 1..Len(image.lookup_entries) :
            \E v \in OtherValues(image.lookup_entries[i]) :
                image' = [image EXCEPT !.lookup_entries[i] = v]
    /\ UNCHANGED <<etable, status, memVars, etVars, slVars, compilation,
                   max_image_table_rows, params, digest>>

NextImage == EncodeImage \/ AssignImage \/ Checksum \/ OtherImage

SpecImage == InitImage /\ [][NextImage]_vars

---------------------------------------------------------------------------
(* Properties of the image table *)

\* the positions in which two cell sequences of one length differ
Differing(a, b) == {i \in 1..Len(a) : a[i] # b[i]}

\* C12: the checksums of two image tables whose serialized cell sequences
\* differ in one cell are different, for the same commitment parameters.
C12_ChecksumBinding ==
    (pc = "both_summed" /\ status = "ok") =>
        LET first == plain(encode_compilation_table_values(compilation, max_image_table_rows))
            second == plain(image)
        IN  (Len(first) = Len(second) /\ Cardinality(Differing(first, second)) = 1)
                => digest[1] # digest[2]

\* two image tables that differ in their last serialized cell, both committed to
C12_Witness ==
    /\ pc = "both_summed" /\ status = "ok"
    /\ Len(digest) = 2
    /\ LET first == plain(encode_compilation_table_values(compilation, max_image_table_rows))
       IN  Differing(first, plain(image)) = {Len(first)}

\* the rows of the three sub-tables of the compiled image, sentinels included
SubTableRows ==
    image_table_rows(compilation.itable, create_brtable(compilation.itable),
                     compilation.elem_table, compilation.imtable)

\* C15: encoding an image whose sub-table rows (with the three sentinel rows)
\* are more than max_image_table_rows fails; otherwise the lookup entries are
\* those rows followed by zero rows, max_image_table_rows in all.
C15_CapacityOrPadding ==
    pc = "encoded" =>
        IF Len(SubTableRows) > max_image_table_rows
        THEN status = "panic"
        ELSE /\ status = "ok"
             /\ Len(image.lookup_entries) = max_image_table_rows
             /\ \A i \in 1..max_image_table_rows :
                    image.lookup_entries[i] =
                        IF i <= Len(SubTableRows) THEN SubTableRows[i] ELSE 0

\* C19: the encoded image has 2 static frame pairs: one (1, encoding) pair
\* for every entry the compiler gave, in order, then (0, encoding of the
\* disabled entry) pairs.
C19_StaticFramesPadded ==
    pc = "encoded" =>
        LET given == compilation.static_jtable
            pairs == image.static_frame_entries
        IN  /\ Len(given) \in {1, 2}
            /\ Len(pairs) = 2
            /\ \A i \in 1..2 :
                pairs[i] =
                    IF i <= Len(given)
                    THEN <<1, bn_to_field(encode_static_frame(given[i]))>>
                    ELSE <<0, bn_to_field(encode_static_frame(DisabledStaticFrameEntry))>>

\* a module without start function: the entry point's pair, then a disabled pair
C19_Witness ==
    /\ pc = "encoded"
    /\ Len(compilation.static_jtable) = 1
    /\ image.static_frame_entries[1][1] = 1
    /\ image.static_frame_entries[2] = <<0, 0>>

---------------------------------------------------------------------------
(* Further properties of the event table (SpecEtable) *)

\* C17: assign fails on its capacity assertion exactly when the events times
\* the rows of an event block are more than max_available_rows, and then no
\* cell is assigned.
C17_CapacityAssertedFirst ==
    pc = "assigned" =>
        /\ status = "panic: assert"
            <=> Len(etable) * EVENT_TABLE_ENTRY_ROWS > max_available_rows
        /\ status = "panic: assert" => cells = <<>>
        /\ status # "panic: assert" => cells # <<>>

\* three events for a table of two event blocks
C17_Witness ==
    /\ pc = "assigned"
    /\ status = "panic: assert"
    /\ Len(etable) = 3
    /\ max_available_rows = 2 * EVENT_TABLE_ENTRY_ROWS

IsAssigned(cell, row) == <<cell, row>> \in DOMAIN cells /\ cells[<<cell, row>>] # None

\* C18: assigning, with values, a trace that is not empty and fits the table
\* writes after the last step a terminal row with eid last.eid + 1, fid, iid
\* and frame id 0, the pages of the last step and sp = last.sp + drop of the
\* final Return; if the last step is not a Return the assignment aborts.
C18_TerminalRow ==
    (pc = "assigned" /\ witness /\ Len(etable) > 0 /\ status # "panic: assert") =>
        LET last == etable[Len(etable)]
        IN  IF last.inst.opcode.class = "Return"
            THEN /\ status = "ok"
                 /\ \A cell \in {"eid", "fid", "iid", "frame_id", "mpages", "sp"} :
                        IsAssigned(cell, TerminalRow)
                 /\ CellValue("eid", TerminalRow) = last.eid + 1
                 /\ CellValue("fid", TerminalRow) = 0
                 /\ CellValue("iid", TerminalRow) = 0
                 /\ CellValue("frame_id", TerminalRow) = 0
                 /\ CellValue("mpages", TerminalRow) = last.allocated_memory_pages
                 /\ CellValue("sp", TerminalRow) = last.sp + last.inst.opcode.drop
                 /\ ~IsAssigned("enabled", TerminalRow)
            ELSE status = "panic: unreachable"

\* a trace that ends with a Return that drops a value
C18_Witness ==
    /\ pc = "assigned" /\ status = "ok" /\ witness
    /\ Len(etable) > 1
    /\ etable[Len(etable)].inst.opcode.drop = 1
    /\ CellValue("sp", TerminalRow) = etable[Len(etable)].sp + 1

\* C20: compute_rest_mops_and_jops gives one pair per step, in trace order;
\* the pair of the last step is the step's own (memory_writing_ops, jops) and
\* the pair of every other step is the pair of the next step plus the step's
\* own, so that both components do not grow along the trace.
C20_InclusiveSuffixSums ==
    pc = "assigned" =>
        LET rest_ops == compute_rest_mops_and_jops(etable)
            own(i) == <<memory_writing_ops(etable[i]), jops(etable[i].inst.opcode)>>
            next(i) == IF i = Len(etable) THEN <<0, 0>> ELSE rest_ops[i + 1]
        IN  /\ Len(rest_ops) = Len(etable)
            /\ \A i \in 1..Len(etable) :
                /\ rest_ops[i][1] = next(i)[1] + own(i)[1]
                /\ rest_ops[i][2] = next(i)[2] + own(i)[2]
                /\ rest_ops[i][1] >= next(i)[1] /\ rest_ops[i][2] >= next(i)[2]
                /\ status = "ok" /\ witness =>
                        CellValue("rest_mops", RowOfStep(i)) = rest_ops[i][1]

\* a trace whose steps write memory and jump, assigned
C20_Witness ==
    /\ pc = "assigned" /\ status = "ok" /\ witness
    /\ Len(etable) = 3
    /\ compute_rest_mops_and_jops(etable)[1] = <<3, 2>>
    /\ compute_rest_mops_and_jops(etable)[3] = <<1, 1>>

---------------------------------------------------------------------------
(* The bit table: circuits/bit_table/assign.rs *)

\* bits of a byte in the model; the code's bytes have 8
ByteBits == 2
\* steps of a trace handed to the bit table
MaxBitSteps == 3

ByteBase == 2 ^ ByteBits
\* 2^32 and 2^64 of the code: a u32 is 4 bytes and a u64 is 8
U32 == ByteBase ^ 4
U64 == U32 * U32

\* rows of the block of one entry: the value, and for each half the half and
\* its 4 bytes (offsets 0..10 of init and of assign_u64_le)
STEP_SIZE == 11

\* `as u32`, `as u64` of a signed operand, and the signed readings back
as_u32(v) == v % U32
as_u64(v) == v % U64
as_i32(u) == IF u >= U32 \div 2 THEN u - U32 ELSE u
as_i64(u) == IF u >= U64 \div 2 THEN u - U64 ELSE u

BitOps == {"And", "Or", "Xor"}

\* the bitwise operation of the interpreter on unsigned words of `bits` bits
RECURSIVE bit_op(_, _, _, _)
bit_op(class, a, b, bits) ==
    IF bits = 0
    THEN 0
    ELSE LET x == a % 2
             y == b % 2
             z == CASE class = "And" -> x * y
                    [] class = "Or" -> IF x + y > 0 THEN 1 ELSE 0
                    [] class = "Xor" -> (x + y) % 2
         IN  z + 2 * bit_op(class, a \div 2, b \div 2, bits - 1)

RECURSIVE count_ones(_)
count_ones(v) == IF v = 0 THEN 0 ELSE (v % 2) + count_ones(v \div 2)

\* StepInfo, with the fields the bit table reads
BitStepInfo(kind, class, left, right, value) ==
    [kind |-> kind, class |-> class, left |-> left, right |-> right, value |-> value]
I32BinBitOp(class, left, right) ==
    BitStepInfo("I32BinBitOp", class, left, right,
                as_i32(bit_op(class, as_u32(left), as_u32(right), 4 * ByteBits)))
I64BinBitOp(class, left, right) ==
    BitStepInfo("I64BinBitOp", class, left, right,
                as_i64(bit_op(class, as_u64(left), as_u64(right), 8 * ByteBits)))
\* UnaryOp { class, operand, result }: the operand is `left`
UnaryOp(class, operand) ==
    BitStepInfo("UnaryOp", class, operand, 0,
                IF class = "Popcnt" THEN count_ones(operand) ELSE 0)
I32Const(value) == BitStepInfo("I32Const", "none", 0, 0, value)

BitStepInfos ==
    { I32BinBitOp("And", -1, ByteBase + 3),
      I64BinBitOp("And", -2, U32 + 2 * ByteBase + 1),
      I64BinBitOp("Xor", 3 * U32 + 2, ByteBase * ByteBase),
      UnaryOp("Popcnt", U32 + 3),
      UnaryOp("Clz", 5),
      I32Const(1) }

\* the rows the bit table may have: room for one block, and for two with a rest
BitAvailableRows == {STEP_SIZE, 2 * STEP_SIZE + 3}

\* BitTableOp::index
op_index(op) ==
    CASE op = "And" -> 0
      [] op = "Or" -> 1
      [] op = "Xor" -> 2
      [] op = "Popcnt" -> 3

BitTableAssign(op, left, right, result) ==
    [op |-> op, left |-> left, right |-> right, result |-> result]

\* faulty variant: every unary op is taken
filter_map_AnyUnary(step_info) ==
    CASE step_info.kind = "I32BinBitOp" ->
            Some(BitTableAssign(step_info.class, as_u32(step_info.left),
                                as_u32(step_info.right), as_u32(step_info.value)))
      [] step_info.kind = "I64BinBitOp" ->
            Some(BitTableAssign(step_info.class, as_u64(step_info.left),
                                as_u64(step_info.right), as_u64(step_info.value)))
      [] step_info.kind = "UnaryOp" ->
            Some(BitTableAssign("Popcnt", step_info.left, 0, step_info.left))
      [] OTHER -> None

\* assign.rs:26-63  the closure of filter_map
filter_map(step_info) ==
    CASE step_info.kind = "I32BinBitOp" ->
            Some(BitTableAssign(step_info.class, as_u32(step_info.left),
                                as_u32(step_info.right), as_u32(step_info.value)))
      [] step_info.kind = "I64BinBitOp" ->
            Some(BitTableAssign(step_info.class, as_u64(step_info.left),
                                as_u64(step_info.right), as_u64(step_info.value)))
      [] step_info.kind = "UnaryOp" /\ step_info.class = "Popcnt" ->
            Some(BitTableAssign("Popcnt", step_info.left, 0, step_info.left))
      [] OTHER -> None

\* assign.rs:22-65
RECURSIVE filter_bit_table_entries(_)
filter_bit_table_entries(event_table) ==
    IF event_table = <<>>
    THEN <<>>
    ELSE filter_map(Head(event_table).step_info)
         \o filter_bit_table_entries(Tail(event_table))

\* assign.rs:68-99  BitTableChip::init: the selectors of every block the
\* table has room for
bit_init_block(offset) ==
    <<<<"block_sel", offset + 1, 1>>>>
    \o [i \in 1..8 |-> <<"lookup_sel", offset + <<2, 3, 4, 5, 7, 8, 9, 10>>[i], 1>>]
    \o [i \in 1..2 |-> <<"u32_sel", offset + <<1, 6>>[i], 1>>]

RECURSIVE bit_init_from(_, _)
bit_init_from(block, blocks) ==
    IF block >= blocks
    THEN <<>>
    ELSE bit_init_block(block * STEP_SIZE) \o bit_init_from(block + 1, blocks)

bit_init(rows) == bit_init_from(0, rows \div STEP_SIZE)

\* assign.rs:101-112
assign_op(offset, op) ==
    [i \in 1..STEP_SIZE |-> <<"op", offset + (i - 1), op_index(op)>>]

\* faulty variant: the bytes from the most significant one
to_be_bytes(v) == [i \in 1..4 |-> (v \div (ByteBase ^ (4 - i))) % ByteBase]

\* u32::to_le_bytes
to_le_bytes(v) == [i \in 1..4 |-> (v \div (ByteBase ^ (i - 1))) % ByteBase]

\* assign.rs:181-201  the macro assign_u32 of assign_u64_le
assign_u32(col, offset, v, at) ==
    LET bytes == to_le_bytes(v)
    IN  <<<<col, offset + at, v>>>>
        \o [index \in 1..4 |-> <<col, offset + 1 + (index - 1) + at, bytes[index]>>]

\* assign.rs:165-207
assign_u64_le(col, offset, value) ==
    LET low_u32 == value % U32
        high_u32 == (value \div U32) % U32
    IN  <<<<col, offset, value>>>>
        \o assign_u32(col, offset, low_u32, 1)
        \o assign_u32(col, offset, high_u32, 6)

\* the sum of the ones of the bytes
ones_of(bytes) == count_ones(bytes[1]) + count_ones(bytes[2])
                  + count_ones(bytes[3]) + count_ones(bytes[4])

\* assign.rs:142-159  the macro assign_u32 of assign_u64_popcnt
assign_u32_popcnt(col, offset, v, bytes, at) ==
    <<<<col, offset + at, v>>>>
    \o [index \in 1..4 |-> <<col, offset + 1 + (index - 1) + at, count_ones(bytes[index])>>]

\* faulty variant: the raw halves and bytes are stored
assign_u64_popcnt_Raw(col, offset, value) == assign_u64_le(col, offset, value)

\* assign.rs:114-163
assign_u64_popcnt(col, offset, value) ==
    LET low_bytes == to_le_bytes(value % U32)
        high_bytes == to_le_bytes((value \div U32) % U32)
    IN  <<<<col, offset, count_ones(value)>>>>
        \o assign_u32_popcnt(col, offset, ones_of(low_bytes), low_bytes, 1)
        \o assign_u32_popcnt(col, offset, ones_of(high_bytes), high_bytes, 6)

\* assign.rs:216-227  the body of the loop of assign_entries
assign_entry(offset, entry) ==
    assign_op(offset, entry.op)
    \o assign_u64_le("left", offset, entry.left)
    \o assign_u64_le("right", offset, entry.right)
    \o IF entry.op = "Popcnt"
       THEN assign_u64_popcnt("result", offset, entry.result)
       ELSE assign_u64_le("result", offset, entry.result)

RECURSIVE assign_entries_from(_, _)
assign_entries_from(entries, offset) ==
    IF entries = <<>>
    THEN <<>>
    ELSE assign_entry(offset, Head(entries))
         \o assign_entries_from(Tail(entries), offset + STEP_SIZE)

\* faulty variant: the entries are counted as rows
exceeds_blocks_Rows(len, rows) == len > rows

\* assign.rs:214  the negation of the asserted condition
exceeds_blocks(len, rows) == len > rows \div STEP_SIZE

---------------------------------------------------------------------------
(* SpecBit: a trace is recorded step by step, then the bit table is assigned *)

InitBit ==
    /\ pc = "trace"
    /\ etable = <<>>
    /\ status = "none"
    /\ imtable = <<>> /\ mtable = <<>> /\ mwtable = <<>>
    /\ initialization_state = <<>>
    /\ max_available_rows \in BitAvailableRows
    /\ witness = TRUE
    /\ cells = <<>>
    /\ capability = 0
    /\ slices = <<>>
    /\ NoImage

\* the interpreter records a step
BitStep ==
    /\ pc = "trace"
    /\ Len(etable) < MaxBitSteps
    /\ \E step_info \in BitStepInfos :
            etable' = Append(etable, EventTableEntry(Len(etable) + 1, step_info))
    /\ UNCHANGED <<pc, status, memVars, etVars, slVars, imgVars>>

\* assign.rs:232-244  BitTableChip::assign: init, then assign_entries, whose
\* assertion comes before the first entry
BitTableChip_assign ==
    /\ pc = "trace"
    /\ pc' = "bit_assigned"
    /\ LET entries == filter_bit_table_entries(etable)
       IN  IF exceeds_blocks(Len(entries), max_available_rows)
           THEN /\ status' = "panic: assert"
                /\ cells' = Assigned(bit_init(max_available_rows))
           ELSE /\ status' = "ok"
                /\ cells' = Assigned(bit_init(max_available_rows)
                                     \o assign_entries_from(entries, 0))
    /\ UNCHANGED <<etable, memVars, initialization_state, max_available_rows, witness, slVars, imgVars>>

NextBit == BitStep \/ BitTableChip_assign

SpecBit == InitBit /\ [][NextBit]_vars

---------------------------------------------------------------------------
(* Properties of the bit table *)

BitAssignedOk == pc = "bit_assigned" /\ status = "ok"

\* the steps the bit table is about, told from the trace alone
IsBitStep(step_info) ==
    \/ step_info.kind \in {"I32BinBitOp", "I64BinBitOp"}
    \/ step_info.kind = "UnaryOp" /\ step_info.class = "Popcnt"
BitStepIndices == {i \in 1..Len(etable) : IsBitStep(etable[i].step_info)}
\* the k-th of them (from 1), in trace order
BitStepAt(k) ==
    CHOOSE i \in BitStepIndices : Cardinality({j \in BitStepIndices : j < i}) = k - 1
\* the first row of the block of the k-th entry
BlockRow(k) == (k - 1) * STEP_SIZE
EntryColumns == {"op", "left", "right", "result"}
\* the rows of a column that are assigned
RowsOf(col) == {a[2] : a \in {b \in DOMAIN cells : b[1] = col}}
\* the operand of a step as the unsigned 64-bit number of the table
Unsigned(step_info, v) == IF step_info.kind = "I32BinBitOp" THEN v % U32 ELSE v % U64

\* C13 as stated: a trace with a single bitwise binary step yields one block
\* of 10 rows.
C13_TenRowBlock ==
    (BitAssignedOk /\ Cardinality(BitStepIndices) = 1) =>
        \A col \in EntryColumns : Cardinality(RowsOf(col)) = 10

\* C13: the block of a bitwise binary entry has 11 rows, and each of the
\* columns left, right and result holds in them the value, its low half and
\* the 4 bytes of the low half, its high half and the 4 bytes of the high
\* half, least significant byte first: value = low + 2^32 * high and each half
\* is the sum of its bytes times the powers of 256.
C13_LittleEndianBlock ==
    BitAssignedOk =>
        \A k \in 1..Cardinality(BitStepIndices) :
            LET step_info == etable[BitStepAt(k)].step_info
                row == BlockRow(k)
                at(col, i) == CellValue(col, row + i)
                half(col, i) == at(col, i + 1)
                                + ByteBase * at(col, i + 2)
                                + ByteBase * ByteBase * at(col, i + 3)
                                + ByteBase * ByteBase * ByteBase * at(col, i + 4)
                holds(col, v) ==
                    /\ \A i \in 0..10 : IsAssigned(col, row + i)
                    /\ at(col, 0) = v
                    /\ at(col, 0) = at(col, 1) + U32 * at(col, 6)
                    /\ at(col, 1) = half(col, 1) /\ at(col, 1) < U32
                    /\ at(col, 6) = half(col, 6) /\ at(col, 6) < U32
                    /\ \A i \in {2, 3, 4, 5, 7, 8, 9, 10} : at(col, i) \in 0..(ByteBase - 1)
            IN  step_info.class \in BitOps =>
                    /\ holds("left", Unsigned(step_info, step_info.left))
                    /\ holds("right", Unsigned(step_info, step_info.right))
                    /\ holds("result", Unsigned(step_info, step_info.value))
                    /\ \A col \in EntryColumns :
                            Cardinality(RowsOf(col) \cap (row..(BlockRow(k + 1) - 1))) = 11

\* a single 64-bit AND step whose operands have bytes that differ
C13_Witness ==
    /\ BitAssignedOk
    /\ Len(etable) = 1
    /\ etable[1].step_info.kind = "I64BinBitOp" /\ etable[1].step_info.class = "And"
    /\ CellValue("right", 0) = U32 + 2 * ByteBase + 1
    /\ CellValue("right", 2) = 1 /\ CellValue("right", 3) = 2 /\ CellValue("right", 7) = 1
    /\ CellValue("left", 0) = U64 - 2
    /\ CellValue("left", 2) = ByteBase - 2 /\ CellValue("left", 10) = ByteBase - 1

\* C14: filter_bit_table_entries yields one entry for every step that is an
\* I32 or I64 bitwise binary op or a Popcnt, in trace order, and none for any
\* other step; as many blocks are assigned as there are such steps.
C14_OneEntryPerBitStep ==
    LET entries == filter_bit_table_entries(etable)
        n == Cardinality(BitStepIndices)
    IN  /\ Len(entries) = n
        /\ \A k \in 1..n :
            LET step_info == etable[BitStepAt(k)].step_info
            IN  /\ entries[k].op = IF step_info.kind = "UnaryOp" THEN "Popcnt" ELSE step_info.class
                /\ entries[k].left = Unsigned(step_info, step_info.left)
                /\ step_info.kind # "UnaryOp" =>
                        /\ entries[k].right = Unsigned(step_info, step_info.right)
                        /\ entries[k].result = Unsigned(step_info, step_info.value)
        /\ BitAssignedOk =>
            /\ RowsOf("op") = 0..(n * STEP_SIZE - 1)
            /\ \A k \in 1..n :
                LET step_info == etable[BitStepAt(k)].step_info
                IN  /\ CellValue("op", BlockRow(k))
                            = op_index(IF step_info.kind = "UnaryOp" THEN "Popcnt" ELSE step_info.class)
                    /\ CellValue("left", BlockRow(k)) = Unsigned(step_info, step_info.left)

\* a trace of a Clz, a Popcnt and a constant: one block
C14_Witness ==
    /\ BitAssignedOk
    /\ Len(etable) = 3
    /\ etable[1].step_info.class = "Clz"
    /\ etable[2].step_info.class = "Popcnt"
    /\ etable[3].step_info.kind = "I32Const"
    /\ RowsOf("op") = 0..(STEP_SIZE - 1)
    /\ CellValue("op", 0) = 3

\* C16: assign fails on its capacity assertion exactly when the filtered
\* entries are more than max_available_rows divided by the rows of a block,
\* and then no cell of an entry block is assigned.
C16_BlocksAssertedFirst ==
    pc = "bit_assigned" =>
        /\ status = "panic: assert"
            <=> Cardinality(BitStepIndices) * STEP_SIZE > max_available_rows
        /\ status = "panic: assert" => \A col \in EntryColumns : RowsOf(col) = {}
        /\ (status = "ok" /\ BitStepIndices # {}) => RowsOf("op") # {}

\* three entries for a table with room for two blocks and three more rows
C16_Witness ==
    /\ pc = "bit_assigned"
    /\ status = "panic: assert"
    /\ Cardinality(BitStepIndices) = 3
    /\ max_available_rows = 2 * STEP_SIZE + 3
    /\ RowsOf("block_sel") = {1, STEP_SIZE + 1}

---------------------------------------------------------------------------
(* The event table on an empty trace and at the end of the table (SpecEtable) *)

\* the cells that init and assign_initialization_state assign before
\* assign_entries runs
StateCellNames ==
    {"eid", "fid", "iid", "sp", "frame_id", "mpages", "maximal_memory_pages",
     "input_index", "context_input_index", "context_output_index",
     "external_host_call_index", "jops"}
CellsBeforeEntries ==
    LET blocks == max_available_rows \div EVENT_TABLE_ENTRY_ROWS
    IN  {<<"step_sel", k * EVENT_TABLE_ENTRY_ROWS>> : k \in 0..(blocks - 1)}
        \cup {<<"rest_mops", blocks * EVENT_TABLE_ENTRY_ROWS>>}
        \cup {<<name, 0>> : name \in StateCellNames}

\* C21: on an empty trace assign_entries assigns the enabled cell of the first
\* row, with zero, and nothing else (no opcode indicator, no step state, no
\* cursor, no terminal row), and the assignment returns without an abort.
C21_EmptyTraceEnabledOnly ==
    (pc = "assigned" /\ Len(etable) = 0) =>
        /\ status = "ok"
        /\ DOMAIN cells \ CellsBeforeEntries = {<<"enabled", 0>>}
        /\ witness =>
            /\ cells[<<"enabled", 0>>] = Some(0)
            /\ CellValue("eid", 0) = initialization_state.eid
            /\ CellValue("sp", 0) = initialization_state.sp
            /\ CellValue("input_index", 0) = initialization_state.input_index
        /\ ~witness => cells[<<"enabled", 0>>] = None

\* the empty trace assigned in the pass that carries values
C21_Witness ==
    /\ pc = "assigned" /\ status = "ok" /\ witness
    /\ Len(etable) = 0
    /\ <<"enabled", 0>> \in DOMAIN cells
    /\ cells[<<"enabled", 0>>] = Some(0)

---------------------------------------------------------------------------
(* Sizes, states and ends of the slices (SpecSlices) *)

\* the least number of parts of at most size events that hold n events
CeilDiv(n, size) == (n + size - 1) \div size

\* C22: from_table with capability c splits n events into ceil(n / (c - 1))
\* slices; the first slice has at most c - 1 events and every later slice at
\* most c, so that no slice has more than c event row blocks.
C22_SliceSizes ==
    (SlicedOk /\ capability >= 2) =>
        /\ Len(slices) = CeilDiv(Len(etable), capability - 1)
        /\ \A k \in 1..Len(slices) :
            Len(slices[k].etable) <= IF k = 1 THEN capability - 1 ELSE capability

\* C23: slice 0 carries the state of the input unchanged; every later slice
\* carries the eid, fid, iid, last_jump_eid, sp and allocated_memory_pages of
\* its own first event; every slice records its index and the number of slices.
C23_StateFromFirstEvent ==
    SlicedOk =>
        /\ Len(slices) > 0 => slices[1].initialization_state = initialization_state
        /\ \A k \in 1..Len(slices) :
            /\ slices[k].current_slice = k - 1
            /\ slices[k].total_slice = Len(slices)
            /\ k > 1 =>
                LET st == slices[k].initialization_state
                    first == slices[k].etable[1]
                IN  /\ st.eid = first.eid
                    /\ st.fid = first.inst.fid
                    /\ st.iid = first.inst.iid
                    /\ st.frame_id = first.last_jump_eid
                    /\ st.sp = first.sp
                    /\ st.initial_memory_pages = first.allocated_memory_pages

\* three slices, the later ones with more than one event and a first event
\* that differs from their last in its eid
C23_Witness ==
    /\ SlicedOk
    /\ Len(slices) = 3
    /\ slices[2].initialization_state.eid = slices[1].etable[Len(slices[1].etable)].eid
    /\ slices[3].initialization_state.eid < LastEvent(slices[3]).eid
    /\ slices[3].current_slice = 2

\* C27: when the trace ends with a Return, the last event of every slice is
\* a Return, so that the event table can be assigned for every slice.
C27_SlicesEndWithReturn ==
    (SlicedOk /\ Len(etable) > 0 /\ ends_with_return(etable)) =>
        \A k \in 1..Len(slices) : ends_with_return(slices[k].etable)

\* C28: for a run whose first state counts all jump ops of the trace, no
\* subtraction of update_rest_jops goes below zero and the counter is zero
\* after the last slice.
C28_RestJopsNoUnderflow ==
    (pc = "sliced" /\ capability >= 2) =>
        /\ status = "ok"
        /\ LET etable_slices == [k \in 1..Len(slices) |-> slices[k].etable]
           IN  /\ \A k \in 1..(Len(slices) + 1) :
                    rest_jops_at(etable_slices, initialization_state, k) >= 0
               /\ rest_jops_at(etable_slices, initialization_state, Len(slices) + 1) = 0

---------------------------------------------------------------------------
(* The memory table chip: circuits/mtable_v2/assign.rs *)

\* rows of the block of one entry of the memory table
MEMORY_TABLE_ENTRY_ROWS == 4

\* the rows the memory table may have
MtableRows == {3 * MEMORY_TABLE_ENTRY_ROWS + 1}

\* AccessType::is_init, AccessType::is_positive_init: create_memory_table
\* builds every Init entry from a value of the image
is_init(atype) == atype = "Init"
is_positive_init(atype) == atype = "Init"

\* mtable_v2/assign.rs:19-32
assign_fixed(rows) ==
    [i \in 1..(rows \div MEMORY_TABLE_ENTRY_ROWS) |->
        <<"entry_sel", (i - 1) * MEMORY_TABLE_ENTRY_ROWS, 1>>]

\* mtable_v2/assign.rs:180-183  the entries that are not Init entries
RECURSIVE fold_rest_mops(_)
fold_rest_mops(mt) ==
    IF mt = <<>>
    THEN 0
    ELSE fold_rest_mops(SubSeq(mt, 1, Len(mt) - 1))
         + (IF is_init(mt[Len(mt)].entry.atype) THEN 0 ELSE 1)

\* mtable_v2/assign.rs:34-51  the counter in the first row, equal by
\* permutation to the cell of the event table if one is given
constraint_rest_mops_permutation(etable_rest_mops_cell, init_rest_mops) ==
    <<<<"rest_mops", 0, init_rest_mops>>>>
    \o (IF etable_rest_mops_cell # None
        THEN <<<<"constrain_equal_rest_mops", 0, etable_rest_mops_cell[1]>>>>
        ELSE <<>>)

\* faulty variant: the counter moves after every entry
rest_mops_moves_Always(atype) == TRUE

\* mtable_v2/assign.rs:134-136
rest_mops_moves(atype) == ~is_init(atype)

\* mtable_v2/assign.rs:80, 134-136  the counter when entry index (from 1) is
\* assigned
RECURSIVE rest_mops_before(_, _, _)
rest_mops_before(mt, init_rest_mops, index) ==
    IF index = 1
    THEN init_rest_mops
    ELSE rest_mops_before(mt, init_rest_mops, index - 1)
         - (IF rest_mops_moves(mt[index - 1].entry.atype) THEN 1 ELSE 0)

\* mtable_v2/assign.rs:109-112  end_eid - eid - 1 in u32
eid_diff(entry) == entry.end_eid - entry.entry.eid - 1

\* mtable_v2/assign.rs:82-137  the cells of entry index; the packed encoding
\* of the entry for the lookup is left out
mtable_entry_cells(mt, init_rest_mops, first_zero_offset, index) ==
    LET entry == mt[index]
        row == (index - 1) * MEMORY_TABLE_ENTRY_ROWS
        bit(cond, cell) == IF cond THEN <<<<cell, row, 1>>>> ELSE <<>>
    IN  <<<<"enabled", row, 1>>>>
        \o bit(entry.entry.ltype = "Stack", "is_stack")
        \o bit(entry.entry.ltype = "Heap", "is_heap")
        \o bit(entry.entry.ltype = "Global", "is_global")
        \o bit(entry.entry.is_mutable, "is_mutable")
        \o bit(entry.entry.vtype = "I32", "is_i32")
        \o bit(entry.entry.vtype = "I64", "is_i64")
        \o bit(is_init(entry.entry.atype), "is_init")
        \o (IF is_positive_init(entry.entry.atype)
            THEN <<<<"is_imtable_init", row, 1>>>>
            ELSE IF is_init(entry.entry.atype)
            THEN <<<<"zero_init_proof", row, entry.entry.offset - first_zero_offset>>>>
            ELSE <<>>)
        \o <<<<"start_eid", row, entry.entry.eid>>,
             <<"end_eid", row, entry.end_eid>>,
             <<"eid_diff", row, eid_diff(entry)>>,
             <<"rest_mops", row, rest_mops_before(mt, init_rest_mops, index)>>,
             <<"offset", row, entry.entry.offset>>,
             <<"value", row, entry.entry.value>>>>

\* mtable_v2/assign.rs:143-166  the cells that compare entry index with the
\* next one; the inverse of the difference is left out
mtable_next_cells(mt, index) ==
    LET curr == mt[index].entry
        next == mt[index + 1].entry
        row == (index - 1) * MEMORY_TABLE_ENTRY_ROWS
    IN  IF curr.ltype = next.ltype
        THEN <<<<"is_next_same_ltype", row, 1>>>>
             \o (IF curr.offset = next.offset
                 THEN <<<<"is_next_same_offset", row, 1>>>>
                 ELSE <<>>)
             \o <<<<"offset_diff", row, next.offset - curr.offset>>>>
        ELSE <<>>

\* mtable_v2/assign.rs:53-169
mtable_entries_cells(mt, init_rest_mops, first_zero_offset) ==
    Concat([index \in 1..Len(mt) |->
                mtable_entry_cells(mt, init_rest_mops, first_zero_offset, index)])
    \o Concat([index \in 1..(Len(mt) - 1) |-> mtable_next_cells(mt, index)])

\* an unsigned subtraction of assign_entries goes below zero
mtable_underflows(mt) == \E index \in 1..Len(mt) : eid_diff(mt[index]) < 0

---------------------------------------------------------------------------
(* SpecMtable: the memory table of a trace is built and assigned *)

InitMtable ==
    /\ pc = "trace"
    /\ etable = <<>>
    /\ imtable \in InitMemoryTables
    /\ status = "none"
    /\ mtable = <<>>
    /\ mwtable = <<>>
    /\ initialization_state = <<>>
    /\ max_available_rows \in MtableRows
    /\ witness = TRUE
    /\ cells = <<>>
    /\ capability = 0
    /\ slices = <<>>
    /\ NoImage

\* mtable_v2/assign.rs:171-194  MemoryTableChip::assign.  The cell of the
\* event table, if given, holds the memory operations of the trace.  A
\* subtraction below zero panics in a build with overflow checks and wraps
\* in one without.
MemoryTableChip_assign ==
    /\ pc = "built" /\ status = "ok"
    /\ pc' = "mtable_assigned"
    /\ \E given \in BOOLEAN, overflow_checks \in BOOLEAN :
        LET etable_rest_mops_cell ==
                IF given THEN Some(Len(expand_steps(etable))) ELSE None
            rest_mops == fold_rest_mops(mwtable)
            first == assign_fixed(max_available_rows)
                     \o constraint_rest_mops_permutation(etable_rest_mops_cell, rest_mops)
        IN  IF overflow_checks /\ mtable_underflows(mwtable)
            THEN /\ status' = "panic: overflow"
                 /\ cells' = Assigned(first)
            ELSE /\ status' = "ok"
                 /\ cells' = Assigned(first \o mtable_entries_cells(mwtable, rest_mops, 0))
    /\ UNCHANGED <<etable, memVars, initialization_state, max_available_rows, witness, slVars, imgVars>>

NextMtable == TraceStep \/ CreateMemoryTable \/ MemoryTableChip_assign

SpecMtable == InitMtable /\ [][NextMtable]_vars

---------------------------------------------------------------------------
(* Properties of the memory table chip *)

MtableAssignedOk == pc = "mtable_assigned" /\ status = "ok"

MtableRow(i) == (i - 1) * MEMORY_TABLE_ENTRY_ROWS
NonInitRows == {i \in 1..Len(mwtable) : mwtable[i].entry.atype # "Init"}
\* the memory accesses of the steps of the trace
StepAccesses ==
    {<<i, j>> \in (1..Len(etable)) \X (1..MaxEntries) : j <= Len(etable[i].step_info)}

---------------------------------------------------------------------------
(* The block of a population count (SpecBit) *)

\* byte i (from 0) of a number
ByteOf(v, i) == (v \div (ByteBase ^ i)) % ByteBase

\* C25: in the block of a Popcnt entry the result column holds the number of
\* one bits of the operand in row 0, of its low and high halves in rows 1 and
\* 6, and of its bytes, least significant first, in rows 2-5 and 7-10; row 0
\* is row 1 plus row 6 and each half row is the sum of its four byte rows;
\* the op column holds Popcnt in every row of the block.
C25_PopcntBlock ==
    BitAssignedOk =>
        \A k \in 1..Cardinality(BitStepIndices) :
            LET step_info == etable[BitStepAt(k)].step_info
                operand == step_info.left
                at(col, i) == CellValue(col, BlockRow(k) + i)
            IN  step_info.kind = "UnaryOp" =>
                    /\ \A i \in 0..10 :
                        /\ IsAssigned("result", BlockRow(k) + i)
                        /\ IsAssigned("op", BlockRow(k) + i)
                        /\ at("op", i) = op_index("Popcnt")
                    /\ at("result", 0) = count_ones(operand)
                    /\ at("result", 1) = count_ones(operand % U32)
                    /\ at("result", 6) = count_ones(operand \div U32)
                    /\ \A i \in 0..3 :
                        /\ at("result", 2 + i) = count_ones(ByteOf(operand, i))
                        /\ at("result", 7 + i) = count_ones(ByteOf(operand, 4 + i))
                    /\ at("result", 0) = at("result", 1) + at("result", 6)
                    /\ at("result", 1) = at("result", 2) + at("result", 3)
                                         + at("result", 4) + at("result", 5)
                    /\ at("result", 6) = at("result", 7) + at("result", 8)
                                         + at("result", 9) + at("result", 10)
                    /\ at("left", 0) = operand
                    /\ at("right", 0) = 0

\* the population count of 2^32 + 3 after another entry
C25_Witness ==
    /\ BitAssignedOk
    /\ Len(etable) = 2
    /\ etable[1].step_info.kind = "I64BinBitOp"
    /\ etable[2].step_info.class = "Popcnt"
    /\ CellValue("result", STEP_SIZE) = 3
    /\ CellValue("result", STEP_SIZE + 1) = 2
    /\ CellValue("result", STEP_SIZE + 2) = 2
    /\ CellValue("result", STEP_SIZE + 6) = 1
    /\ CellValue("result", STEP_SIZE + 7) = 1
    /\ CellValue("left", STEP_SIZE + 2) = 3

---------------------------------------------------------------------------
(* The order of the image column (SpecImage) *)

\* the fields of the initialization state in the order of the image column
StateFieldOrder ==
    <<"eid", "fid", "iid", "frame_id", "sp", "initial_memory_pages",
      "maximal_memory_pages", "input_index", "context_input_index",
      "context_output_index", "external_host_call_index", "jops">>

---------------------------------------------------------------------------
(* The rows of the event table (SpecEtable) *)

\* the first rows of the blocks that assign_entries writes: the steps and
\* the terminal row block
EntryBlockRows ==
    IF Len(etable) = 0 THEN {} ELSE {RowOfStep(i) : i \in 1..(Len(etable) + 1)}

\* C29 as stated: every row written for the step blocks and for the terminal
\* row block lies below max_available_rows.
C29_RowsBelowCapacity ==
    AssignedOk => \A row \in EntryBlockRows : row < max_available_rows

\* C29: every step block lies below max_available_rows as a whole; the
\* terminal row block starts at max_available_rows at most, which it reaches
\* when the events fill the table, and no cell is assigned after it.
C29_TerminalRowAtCapacity ==
    AssignedOk =>
        /\ \A i \in 1..Len(etable) :
            /\ IsAssigned("eid", RowOfStep(i))
            /\ RowOfStep(i) + EVENT_TABLE_ENTRY_ROWS <= max_available_rows
        /\ Len(etable) > 0 =>
            /\ IsAssigned("eid", TerminalRow)
            /\ TerminalRow <= max_available_rows
        /\ \A addr \in DOMAIN cells : addr[2] <= max_available_rows

\* two events in a table of two event blocks: the terminal row block starts
\* at max_available_rows
C29_Witness ==
    /\ AssignedOk
    /\ Len(etable) * EVENT_TABLE_ENTRY_ROWS = max_available_rows
    /\ Len(etable) = 2
    /\ IsAssigned("eid", max_available_rows)
    /\ CellValue("eid", max_available_rows) = etable[2].eid + 1

---------------------------------------------------------------------------
(* The cells of the initialization state after the steps (SpecEtable) *)

\* the cell of the event table that each field of the state is returned as
StateCellOf ==
    [eid |-> "eid", fid |-> "fid", iid |-> "iid", frame_id |-> "frame_id", sp |-> "sp",
     initial_memory_pages |-> "mpages", maximal_memory_pages |-> "maximal_memory_pages",
     input_index |-> "input_index", context_input_index |-> "context_input_index",
     context_output_index |-> "context_output_index",
     external_host_call_index |-> "external_host_call_index", jops |-> "jops"]

=============================================================================
